---- MODULE Spec2Model ----
(***************************************************************************)
(* Model of src/app.py ("Mercado da Nicia"): a Streamlit script that keeps *)
(* two worksheets ("produtos", "historico") and, on every run, loads both, *)
(* renders a purchase suggestion for each product and then executes the    *)
(* handler of the button that was pressed.                                 *)
(*                                                                         *)
(* Representation                                                          *)
(*   - a data frame is a sequence of records (one per row, in row order);  *)
(*     the column Marca is carried through unchanged by every handler and  *)
(*     is left out;                                                        *)
(*   - a text (product name) is a sequence of one-character strings;       *)
(*   - the column Data, a string "YYYY-MM-DD HH:MM:SS", is the pair        *)
(*     <<date, time of day>>: strings of that shape compare as the pairs   *)
(*     do, strftime splits the clock and strptime joins the pair again;    *)
(*   - a price is a whole number of centavos;                              *)
(*   - a float is an IEEE double: the record [n, s] stands for n * 2^(-s), *)
(*     n a binary numeral of at most 53 bits; every operation rounds to    *)
(*     nearest, ties to even, as the hardware does;                        *)
(*   - a script run is a chain of steps: load_data and the rendering, the  *)
(*     handler of the button up to its call of save_data, the four         *)
(*     worksheet requests one by one, the sleep and st.rerun().            *)
(***************************************************************************)
EXTENDS Integers, Sequences, FiniteSets, TLC

\* ------------------------------------------------------------------ bounds
MaxEventos == 3      \* rows of the history frames drawn for the planner
MaxRelogio == 3      \* no handler saves once the handlers have slept that many seconds
MaxLinhas == 4       \* rows of the history a handler may hand to save_data
MaxEsperas == 1      \* long pauses between two interactions
MaxFalhas == 1       \* failed loads and interrupted saves in one behaviour

\* timedelta.days: whole days of 86400 seconds
SecsPerDay == 86400

\* What the user types: names (empty, blank, differing in case and padding),
\* prices in centavos, quantities and counts, minimum stocks.
Nomes == { <<>>, <<" ">>, <<"a">>, <<"A", " ">> }
Precos == {550}
Qtds == {0, 1}
Minimos == {1}

\* A pause between two interactions: thirty days and a half.
EsperaLonga == 30 * SecsPerDay + SecsPerDay \div 2

VARIABLES
    sh,            \* cached result of conectar_google_sheets: TRUE = a sheet, FALSE = None
    ws_prod,       \* worksheet "produtos"
    ws_hist,       \* worksheet "historico"
    df_produtos,   \* the script's frame of products
    df_historico,  \* the script's frame of events
    lista,         \* what the last run rendered: one (ID, sugestao, motivo) per product
    clock,         \* wall clock, in seconds
    falhas,        \* failed loads and interrupted saves so far
    ult,           \* the last run: button, message shown, whether save_data was called,
                   \* exception that ended it, rows of the history it loaded
    pc             \* where the script is: "pronto" (run over, waiting for the user),
                   \* "carregado" (loaded and rendered, before the button's handler),
                   \* "gravando" (inside save_data, n worksheet requests done),
                   \* "salvo" (save_data returned), "rerun" (st.rerun() called)

vars == <<sh, ws_prod, ws_hist, df_produtos, df_historico, lista, clock, falhas, ult, pc>>

\* ------------------------------------------------------------------ texts
CodePoint(c) == CASE c = " " -> 32 [] c = "A" -> 65 [] c = "a" -> 97 [] c = "b" -> 98

RECURSIVE LStrip(_)
LStrip(s) == IF s # <<>> /\ Head(s) = " " THEN LStrip(Tail(s)) ELSE s

RECURSIVE RStrip(_)
RStrip(s) == IF s # <<>> /\ s[Len(s)] = " " THEN RStrip(SubSeq(s, 1, Len(s) - 1)) ELSE s

\* str.strip()
Strip(s) == RStrip(LStrip(s))

\* str.lower()
Lower(s) == [i \in 1..Len(s) |-> IF s[i] = "A" THEN "a" ELSE s[i]]

\* a < b for Python strings (code point order, a proper prefix is smaller)
RECURSIVE StrLess(_, _)
StrLess(a, b) ==
    IF b = <<>> THEN FALSE
    ELSE IF a = <<>> THEN TRUE
    ELSE IF CodePoint(Head(a)) # CodePoint(Head(b)) THEN CodePoint(Head(a)) < CodePoint(Head(b))
    ELSE StrLess(Tail(a), Tail(b))

\* ------------------------------------------------------------------ dates
\* datetime.now().strftime("%Y-%m-%d %H:%M:%S")
Strftime(t) == <<t \div SecsPerDay, t % SecsPerDay>>

\* datetime.strptime(s, "%Y-%m-%d %H:%M:%S") / pd.to_datetime(s), in seconds
Strptime(d) == d[1] * SecsPerDay + d[2]

\* a < b for two Data strings
DataLess(a, b) == a[1] < b[1] \/ (a[1] = b[1] /\ a[2] < b[2])

\* ------------------------------------------------------------------ frames
RECURSIVE SumQtd(_)
SumQtd(s) == IF s = <<>> THEN 0 ELSE Head(s).Qtd + SumQtd(Tail(s))

Range(s) == {s[i] : i \in 1..Len(s)}
IDs(df) == {df[i].ID : i \in 1..Len(df)}
MaxOf(S) == CHOOSE x \in S : \A y \in S : y <= x
Vazio == <<>>        \* pd.DataFrame()

\* df.sort_values(by='Produto', ascending=True): insertion keeps equal keys in row order
RECURSIVE InsertByProduto(_, _)
InsertByProduto(x, s) ==
    IF s = <<>> THEN <<x>>
    ELSE IF StrLess(x.Produto, Head(s).Produto) THEN <<x>> \o s
    ELSE <<Head(s)>> \o InsertByProduto(x, Tail(s))

RECURSIVE SortByProduto(_)
SortByProduto(s) ==
    IF s = <<>> THEN <<>>
    ELSE InsertByProduto(s[Len(s)], SortByProduto(SubSeq(s, 1, Len(s) - 1)))

\* df.sort_values(by='Data', ascending=False): greatest Data first, equal keys in row order
RECURSIVE InsertByDataDesc(_, _)
InsertByDataDesc(x, s) ==
    IF s = <<>> THEN <<x>>
    ELSE IF DataLess(Head(s).Data, x.Data) THEN <<x>> \o s
    ELSE <<Head(s)>> \o InsertByDataDesc(x, Tail(s))

RECURSIVE SortByDataDesc(_)
SortByDataDesc(s) ==
    IF s = <<>> THEN <<>>
    ELSE InsertByDataDesc(s[Len(s)], SortByDataDesc(SubSeq(s, 1, Len(s) - 1)))

\* ------------------------------------------------------------------ the store
\* load_data(). carga = "ok": both worksheets were read; "erro": a call inside the
\* try block raised. Without a sheet (sh is None) it returns two empty frames too.
LoadFrom(prod, hist, carga) ==
    IF ~sh \/ carga = "erro" THEN [prod |-> Vazio, hist |-> Vazio]
    ELSE [prod |-> SortByProduto(prod), hist |-> hist]

LoadData(carga) == LoadFrom(ws_prod, ws_hist, carga)

\* save_data(df_prod, df_hist): the worksheets afterwards. grav is the number of
\* worksheet writes (clear, update, clear, update) done when the call returned (4)
\* or raised (0..3).
SaveData(df_prod, df_hist, grav) ==
    IF ~sh THEN [prod |-> ws_prod, hist |-> ws_hist]
    ELSE [prod |-> IF grav >= 2 THEN df_prod ELSE IF grav = 1 THEN Vazio ELSE ws_prod,
          hist |-> IF grav >= 4 THEN df_hist ELSE IF grav = 3 THEN Vazio ELSE ws_hist]

\* save_data returned (it returns at once when there is no sheet)
SaveReturned(grav) == ~sh \/ grav = 4

\* ------------------------------------------------------------------ floats
\* Binary numerals: sequences of bits, most significant first; <<>> is 0.
Mant == 53           \* bits of a double's significand
LimbBits == 12       \* numerals are added and multiplied twelve bits at a time

\* the powers of two up to 2^LimbBits
RECURSIVE Potencias(_)
Potencias(k) == IF k = 0 THEN <<1>> ELSE LET p == Potencias(k - 1) IN Append(p, 2 * p[k])

PotenciasDe2 == Potencias(LimbBits)

Pow2(k) == PotenciasDe2[k + 1]

Max2(x, y) == IF x >= y THEN x ELSE y

RECURSIVE BitsOf(_)
BitsOf(n) == IF n = 0 THEN <<>> ELSE Append(BitsOf(n \div 2), n % 2)

RECURSIVE ValFrom(_, _, _)
ValFrom(b, i, acc) == IF i > Len(b) THEN acc ELSE ValFrom(b, i + 1, 2 * acc + b[i])

ValOf(b) == ValFrom(b, 1, 0)

\* without leading zeros
Norm(b) ==
    IF \A i \in 1..Len(b) : b[i] = 0 THEN <<>>
    ELSE SubSeq(b, CHOOSE i \in 1..Len(b) : b[i] = 1 /\ \A j \in 1..(i - 1) : b[j] = 0, Len(b))

\* bit i, counted from the least significant one
Bit(b, i) == IF i < Len(b) THEN b[Len(b) - i] ELSE 0

ShiftL(a, n) == IF a = <<>> THEN <<>> ELSE a \o [i \in 1..n |-> 0]

LessBits(a, b) ==
    \/ Len(a) < Len(b)
    \/ /\ Len(a) = Len(b)
       /\ \E i \in 1..Len(a) : a[i] < b[i] /\ \A j \in 1..(i - 1) : a[j] = b[j]

\* the numeral in groups of LimbBits bits, least significant group first, and back
ToLimbs(b) ==
    [j \in 1..((Len(b) + LimbBits - 1) \div LimbBits) |->
        ValOf(SubSeq(b, Max2(1, Len(b) - LimbBits * j + 1), Len(b) - LimbBits * (j - 1)))]

ToBits(L) ==
    Norm([i \in 1..(LimbBits * Len(L)) |->
            (L[Len(L) - (i - 1) \div LimbBits] \div Pow2(LimbBits - 1 - ((i - 1) % LimbBits))) % 2])

Limb(L, j) == IF j <= Len(L) THEN L[j] ELSE 0

RECURSIVE AddFrom(_, _, _, _, _)
AddFrom(A, B, j, c, acc) ==
    IF j > Max2(Len(A), Len(B)) THEN Append(acc, c)
    ELSE LET t == Limb(A, j) + Limb(B, j) + c
         IN AddFrom(A, B, j + 1, t \div Pow2(LimbBits), Append(acc, t % Pow2(LimbBits)))

AddBits(a, b) == ToBits(AddFrom(ToLimbs(a), ToLimbs(b), 1, 0, <<>>))

RECURSIVE SubFrom(_, _, _, _, _)
SubFrom(A, B, j, c, acc) ==
    IF j > Len(A) THEN acc
    ELSE LET t == Limb(A, j) - Limb(B, j) - c
         IN SubFrom(A, B, j + 1, IF t < 0 THEN 1 ELSE 0,
                    Append(acc, IF t < 0 THEN t + Pow2(LimbBits) ELSE t))

\* a - b for a >= b
SubBits(a, b) == ToBits(SubFrom(ToLimbs(a), ToLimbs(b), 1, 0, <<>>))

RECURSIVE MulFrom(_, _, _, _, _)
MulFrom(A, k, j, c, acc) ==
    IF j > Len(A) THEN Append(acc, c)
    ELSE LET t == A[j] * k + c
         IN MulFrom(A, k, j + 1, t \div Pow2(LimbBits), Append(acc, t % Pow2(LimbBits)))

\* a * k for a small integer k
MulBits(a, k) == ToBits(MulFrom(ToLimbs(a), k, 1, 0, <<>>))

\* the double n * 2^(-s) with its trailing zero bits dropped
Canon(n, s) ==
    IF \A i \in 1..Len(n) : n[i] = 0 THEN [n |-> <<>>, s |-> 0]
    ELSE LET z == CHOOSE k \in 0..(Len(n) - 1) :
                     n[Len(n) - k] = 1 /\ \A j \in 0..(k - 1) : n[Len(n) - j] = 0
         IN [n |-> SubSeq(n, 1, Len(n) - z), s |-> s - z]

\* n * 2^(-s) (plus something below the last bit when sticky) rounded to a double
Round(n, s, sticky) ==
    IF Len(n) <= Mant THEN Canon(n, s)
    ELSE LET keep == SubSeq(n, 1, Mant)
             g == n[Mant + 1]
             st == sticky \/ \E i \in (Mant + 2)..Len(n) : n[i] = 1
             up == g = 1 /\ (st \/ keep[Mant] = 1)
         IN Canon(IF up THEN AddBits(keep, <<1>>) ELSE keep, s - (Len(n) - Mant))

\* long division, LimbBits quotient bits a step, until the significand is full
RECURSIVE DivExt(_, _, _, _)
DivExt(n, r, d, s) ==
    IF r = 0 THEN Round(n, s, FALSE)
    ELSE IF Len(n) > Mant THEN Round(n, s, TRUE)
    ELSE LET t == r * Pow2(LimbBits)
             q == BitsOf(t \div d)
         IN DivExt(Norm(n \o [i \in 1..(LimbBits - Len(q)) |-> 0] \o q), t % d, d, s + LimbBits)

\* c / d for integers c >= 0 and 0 < d < 2^19
TrueDiv(c, d) == DivExt(BitsOf(c \div d), c % d, d, 0)

\* float(k) for an integer k >= 0
FromInt(k) == Canon(BitsOf(k), 0)

\* x * k for a small integer k
FloatMul(x, k) == Round(MulBits(x.n, k), x.s, FALSE)

FloatAdd(x, y) ==
    LET S == Max2(x.s, y.s)
    IN Round(AddBits(ShiftL(x.n, S - x.s), ShiftL(y.n, S - y.s)), S, FALSE)

\* x - y for x >= y
FloatSub(x, y) ==
    LET S == Max2(x.s, y.s)
    IN Round(SubBits(ShiftL(x.n, S - x.s), ShiftL(y.n, S - y.s)), S, FALSE)

\* x < y
FloatLess(x, y) ==
    LET S == Max2(x.s, y.s)
    IN LessBits(ShiftL(x.n, S - x.s), ShiftL(y.n, S - y.s))

\* int(x), x >= 0: truncation
IntOf(x) ==
    IF x.s <= 0 THEN ValOf(ShiftL(x.n, -x.s))
    ELSE ValOf(SubSeq(x.n, 1, Len(x.n) - x.s))

\* f"{x:.1f}", as a number of tenths: the exact value of the double, ties to even
Fmt1(x) ==
    LET m == MulBits(x.n, 10)
    IN IF x.s <= 0 THEN ValOf(ShiftL(m, -x.s))
       ELSE LET i == ValOf(SubSeq(m, 1, Len(m) - x.s))
                g == Bit(m, x.s - 1)
                st == \E j \in 0..(x.s - 2) : Bit(m, j) = 1
            IN IF g = 1 /\ (st \/ i % 2 = 1) THEN i + 1 ELSE i

\* the literal 0.9
NoveDecimos == TrueDiv(9, 10)

\* ------------------------------------------------------------------ the planner
Levantamentos(hist) == SelectSeq(hist, LAMBDA e : e.Tipo = "LEVANTAMENTO")

\* Variant: purchases made at the very second of the previous count are summed too.
ConsumoMensalFechado(prod_id, df_hist) ==
    LET hist == SortByDataDesc(SelectSeq(df_hist, LAMBDA e : e.Produto_ID = prod_id))
        levs == Levantamentos(hist)
        ultimo == levs[1]
        penultimo == levs[2]
        dt_atual == Strptime(ultimo.Data)
        dt_anterior == Strptime(penultimo.Data)
        dias0 == (dt_atual - dt_anterior) \div SecsPerDay
        dias == IF dias0 = 0 THEN 1 ELSE dias0
        compras == SumQtd(SelectSeq(hist, LAMBDA e :
                       /\ e.Tipo = "COMPRA"
                       /\ Strptime(e.Data) >= dt_anterior
                       /\ Strptime(e.Data) <= dt_atual))
        consumido0 == (penultimo.Qtd + compras) - ultimo.Qtd
        consumido == IF consumido0 < 0 THEN 0 ELSE consumido0
    IN FloatMul(TrueDiv(consumido, dias), 30)

\* consumo_mensal of calcular_sugestao, a float, for a history with two
\* LEVANTAMENTO rows of the product
ConsumoMensal(prod_id, df_hist) ==
    LET hist == SortByDataDesc(SelectSeq(df_hist, LAMBDA e : e.Produto_ID = prod_id))
        levs == Levantamentos(hist)
        ultimo == levs[1]
        penultimo == levs[2]
        dt_atual == Strptime(ultimo.Data)
        dt_anterior == Strptime(penultimo.Data)
        dias0 == (dt_atual - dt_anterior) \div SecsPerDay
        dias == IF dias0 = 0 THEN 1 ELSE dias0
        compras == SumQtd(SelectSeq(hist, LAMBDA e :
                       /\ e.Tipo = "COMPRA"
                       /\ Strptime(e.Data) > dt_anterior
                       /\ Strptime(e.Data) <= dt_atual))
        consumido0 == (penultimo.Qtd + compras) - ultimo.Qtd
        consumido == IF consumido0 < 0 THEN 0 ELSE consumido0
    IN FloatMul(TrueDiv(consumido, dias), 30)

\* calcular_sugestao(row, df_hist) -> <<int(sugestao + 0.9), motivo>>
CalcularSugestao(row, df_hist) ==
    LET prod_id == row.ID
        estoque_atual == row.Estoque_Atual
        estoque_minimo == row.Estoque_Minimo
        hist == SelectSeq(df_hist, LAMBDA e : e.Produto_ID = prod_id)
        levs == Levantamentos(hist)
    IN IF Len(levs) >= 2
       THEN LET consumo_mensal == ConsumoMensal(prod_id, df_hist)
            IN IF FloatLess(FromInt(estoque_atual), consumo_mensal)
               THEN <<IntOf(FloatAdd(FloatSub(consumo_mensal, FromInt(estoque_atual)), NoveDecimos)),
                      <<"Media consumo: ", Fmt1(consumo_mensal)>> >>
               ELSE <<IntOf(FloatAdd(FromInt(0), NoveDecimos)), <<"">> >>
       ELSE IF estoque_minimo > estoque_atual
            THEN <<IntOf(FloatAdd(FromInt(estoque_minimo - estoque_atual), NoveDecimos)),
                   <<"Abaixo do minimo">> >>
            ELSE <<IntOf(FloatAdd(FromInt(0), NoveDecimos)), <<"">> >>

\* df_hist['Produto_ID'] on a frame without columns (an empty worksheet) raises KeyError
RenderRaises(df_prod, df_hist) == df_prod # Vazio /\ df_hist = Vazio

\* The loop over df_produtos.iterrows() of the tab "Fazer Compras"
Renderizar(df_prod, df_hist) ==
    IF df_prod = Vazio \/ df_hist = Vazio THEN <<>>
    ELSE [i \in 1..Len(df_prod) |->
            LET r == CalcularSugestao(df_prod[i], df_hist)
            IN [ID |-> df_prod[i].ID, sugestao |-> r[1], motivo |-> r[2]]]

\* ------------------------------------------------------------------ script runs
Pronto == [fase |-> "pronto", n |-> 0]

Init ==
    /\ sh = TRUE
    /\ ws_prod = Vazio
    /\ ws_hist = Vazio
    /\ df_produtos = Vazio
    /\ df_historico = Vazio
    /\ lista = <<>>
    /\ clock = 0
    /\ falhas = 0
    /\ ult = [op |-> "", msg |-> "", salvou |-> FALSE, exc |-> "", n0 |-> 0]
    /\ pc = Pronto

\* time.sleep(n) of each handler (line 297, of FINALIZAR COMPRA, is never reached),
\* and the message it shows after save_data
Sleep(op) == IF op = "finalizar" THEN 2 ELSE 1

Sucesso(op) ==
    CASE op = "cadastrar" -> "cadastrado com sucesso!"
      [] op = "finalizar" -> "Compra registrada!"
      [] op = "contagem" -> "Estoque atualizado!"
      [] op = "excluir" -> "Produto excluido!"

\* seconds slept by the handlers so far
Secs(t) == t % EsperaLonga

Carregado == [fase |-> "carregado", n |-> 0]

\* A run starts when the script is idle or st.rerun() asked for one (a button
\* pressed during the sleep is served by the run that follows).
PodeRodar == pc.fase \in {"pronto", "carregado", "rerun"}

\* The first part of every run: load_data and the rendering of the tab "Fazer
\* Compras". The run goes on to the button that was pressed, if any, unless the
\* rendering raised.
Abrir(Cs) ==
    \E carga \in IF sh THEN Cs ELSE {"ok"} :
    LET loaded == LoadData(carga)
        nfalhas == IF loaded = LoadData("ok") THEN 0 ELSE 1
    IN /\ PodeRodar
       /\ falhas + nfalhas <= MaxFalhas
       /\ falhas' = falhas + nfalhas
       /\ df_produtos' = loaded.prod
       /\ df_historico' = loaded.hist
       /\ lista' = Renderizar(loaded.prod, loaded.hist)
       /\ ult' = [op |-> "abrir", msg |-> "", salvou |-> FALSE,
                  exc |-> IF RenderRaises(loaded.prod, loaded.hist) THEN "KeyError" ELSE "",
                  n0 |-> Len(loaded.hist)]
       /\ pc' = IF RenderRaises(loaded.prod, loaded.hist) THEN Pronto ELSE Carregado
       /\ UNCHANGED <<sh, ws_prod, ws_hist, clock>>

\* The end of a handler that left the frames (df_prod, df_hist): either the run
\* is over with a message, or the handler calls save_data.
Fim(op, msg, df_prod, df_hist, salvar) ==
    /\ salvar => /\ Secs(clock) < MaxRelogio
                 /\ Len(df_hist) <= MaxLinhas
    /\ df_produtos' = df_prod
    /\ df_historico' = df_hist
    /\ ult' = [op |-> op, msg |-> IF salvar THEN "" ELSE msg, salvou |-> salvar,
               exc |-> "", n0 |-> Len(df_historico)]
    /\ pc' = IF salvar THEN [fase |-> "gravando", n |-> 0] ELSE Pronto
    /\ UNCHANGED <<sh, ws_prod, ws_hist, lista, clock, falhas>>

\* One worksheet request of save_data: clear, update, clear, update. Without a
\* sheet save_data returns at once.
Gravar ==
    /\ pc.fase = "gravando"
    /\ LET n == IF sh THEN pc.n + 1 ELSE 4
           store == SaveData(df_produtos, df_historico, n)
       IN /\ ws_prod' = store.prod
          /\ ws_hist' = store.hist
          /\ pc' = IF SaveReturned(n) THEN [fase |-> "salvo", n |-> 0]
                   ELSE [fase |-> "gravando", n |-> n]
          /\ ult' = IF SaveReturned(n) THEN [ult EXCEPT !.msg = Sucesso(ult.op)] ELSE ult
    /\ UNCHANGED <<sh, df_produtos, df_historico, lista, clock, falhas>>

\* A worksheet request of save_data raises: the run ends with the exception.
GravarErro ==
    /\ pc.fase = "gravando"
    /\ sh
    /\ falhas < MaxFalhas
    /\ falhas' = falhas + 1
    /\ ult' = [ult EXCEPT !.exc = "Exception"]
    /\ pc' = Pronto
    /\ UNCHANGED <<sh, ws_prod, ws_hist, df_produtos, df_historico, lista, clock>>

\* After save_data and the message: time.sleep and st.rerun(). FINALIZAR COMPRA
\* first assigns st.session_state["qtd_<ID>"] = 0 for the IDs of inputs_qtd_ids,
\* keys of number inputs this run has already created; Streamlit forbids that
\* (every version that has st.cache_resource does) and raises
\* StreamlitAPIException there, so that run ends without sleep and rerun.
Dormir ==
    /\ pc.fase = "salvo"
    /\ IF ult.op = "finalizar"
       THEN /\ ult' = [ult EXCEPT !.exc = "StreamlitAPIException"]
            /\ pc' = Pronto
            /\ UNCHANGED clock
       ELSE /\ clock' = clock + Sleep(ult.op)
            /\ pc' = [fase |-> "rerun", n |-> 0]
            /\ UNCHANGED ult
    /\ UNCHANGED <<sh, ws_prod, ws_hist, df_produtos, df_historico, lista, falhas>>

\* Time passes while nobody uses the app.
Esperar ==
    /\ pc.fase \in {"pronto", "carregado"}
    /\ clock \div EsperaLonga < MaxEsperas
    /\ clock' = clock + EsperaLonga
    /\ UNCHANGED <<sh, ws_prod, ws_hist, df_produtos, df_historico, lista, falhas, ult, pc>>

\* ---- "Cadastrar" (tab Gerenciar)
NovoID(df_prod) ==
    LET nid == Len(df_prod) + 1
    IN IF df_prod # Vazio /\ nid \in IDs(df_prod) THEN MaxOf(IDs(df_prod)) + 1 ELSE nid

NomesExistentes(df_prod) == {Lower(Strip(df_prod[i].Produto)) : i \in 1..Len(df_prod)}

Cadastrar(nome, est_inicial, minimo) ==
    LET nome_limpo == Strip(nome)
        nid == NovoID(df_produtos)
        novo == [ID |-> nid, Produto |-> nome_limpo, Preco |-> 0,
                 Estoque_Atual |-> est_inicial, Estoque_Minimo |-> minimo]
        log == [Data |-> Strftime(clock), Produto_ID |-> nid, Tipo |-> "LEVANTAMENTO",
                Qtd |-> est_inicial, Preco_Na_Epoca |-> 0]
    IN /\ pc.fase = "carregado"
       /\ IF nome = <<>>
          THEN Fim("cadastrar", "O nome do produto e obrigatorio.",
                   df_produtos, df_historico, FALSE)
          ELSE IF Lower(nome_limpo) \in NomesExistentes(df_produtos)
          THEN Fim("cadastrar", "ja esta cadastrado!", df_produtos, df_historico, FALSE)
          ELSE Fim("cadastrar", "", Append(df_produtos, novo), Append(df_historico, log), TRUE)

\* ---- "FINALIZAR COMPRA" (tab Fazer Compras)
\* Variants of the loop: the stock is left alone; the price is left alone; an entry
\* of quantity 0 is bought too.
RECURSIVE ComprarItensSemEstoque(_, _, _, _)
ComprarItensSemEstoque(ids, df_prod, cart, now) ==
    IF ids = <<>> THEN [prod |-> df_prod, compras |-> <<>>]
    ELSE LET pid == Head(ids)
             qtd == cart[pid].qtd
             preco == cart[pid].prc
         IN IF qtd > 0
            THEN LET df1 == [i \in 1..Len(df_prod) |->
                               IF df_prod[i].ID = pid
                               THEN [df_prod[i] EXCEPT !.Preco = preco]
                               ELSE df_prod[i]]
                     rest == ComprarItensSemEstoque(Tail(ids), df1, cart, now)
                 IN [prod |-> rest.prod,
                     compras |-> <<[Data |-> now, Produto_ID |-> pid, Tipo |-> "COMPRA",
                                    Qtd |-> qtd, Preco_Na_Epoca |-> preco]>> \o rest.compras]
            ELSE ComprarItensSemEstoque(Tail(ids), df_prod, cart, now)

RECURSIVE ComprarItensSemPreco(_, _, _, _)
ComprarItensSemPreco(ids, df_prod, cart, now) ==
    IF ids = <<>> THEN [prod |-> df_prod, compras |-> <<>>]
    ELSE LET pid == Head(ids)
             qtd == cart[pid].qtd
             preco == cart[pid].prc
         IN IF qtd > 0
            THEN LET df1 == [i \in 1..Len(df_prod) |->
                               IF df_prod[i].ID = pid
                               THEN [df_prod[i] EXCEPT !.Estoque_Atual = @ + qtd]
                               ELSE df_prod[i]]
                     rest == ComprarItensSemPreco(Tail(ids), df1, cart, now)
                 IN [prod |-> rest.prod,
                     compras |-> <<[Data |-> now, Produto_ID |-> pid, Tipo |-> "COMPRA",
                                    Qtd |-> qtd, Preco_Na_Epoca |-> preco]>> \o rest.compras]
            ELSE ComprarItensSemPreco(Tail(ids), df_prod, cart, now)

RECURSIVE ComprarItensZero(_, _, _, _)
ComprarItensZero(ids, df_prod, cart, now) ==
    IF ids = <<>> THEN [prod |-> df_prod, compras |-> <<>>]
    ELSE LET pid == Head(ids)
             qtd == cart[pid].qtd
             preco == cart[pid].prc
         IN IF qtd >= 0
            THEN LET df1 == [i \in 1..Len(df_prod) |->
                               IF df_prod[i].ID = pid
                               THEN [df_prod[i] EXCEPT !.Estoque_Atual = @ + qtd, !.Preco = preco]
                               ELSE df_prod[i]]
                     rest == ComprarItensZero(Tail(ids), df1, cart, now)
                 IN [prod |-> rest.prod,
                     compras |-> <<[Data |-> now, Produto_ID |-> pid, Tipo |-> "COMPRA",
                                    Qtd |-> qtd, Preco_Na_Epoca |-> preco]>> \o rest.compras]
            ELSE ComprarItensZero(Tail(ids), df_prod, cart, now)

\* The loop over inputs_qtd_ids: the frame of products and compras_realizadas after it.
RECURSIVE ComprarItens(_, _, _, _)
ComprarItens(ids, df_prod, cart, now) ==
    IF ids = <<>> THEN [prod |-> df_prod, compras |-> <<>>]
    ELSE LET pid == Head(ids)
             qtd == cart[pid].qtd
             preco == cart[pid].prc
         IN IF qtd > 0
            THEN LET df1 == [i \in 1..Len(df_prod) |->
                               IF df_prod[i].ID = pid
                               THEN [df_prod[i] EXCEPT !.Estoque_Atual = @ + qtd, !.Preco = preco]
                               ELSE df_prod[i]]
                     rest == ComprarItens(Tail(ids), df1, cart, now)
                 IN [prod |-> rest.prod,
                     compras |-> <<[Data |-> now, Produto_ID |-> pid, Tipo |-> "COMPRA",
                                    Qtd |-> qtd, Preco_Na_Epoca |-> preco]>> \o rest.compras]
            ELSE ComprarItens(Tail(ids), df_prod, cart, now)

InputsIds(df_prod) == [i \in 1..Len(df_prod) |-> df_prod[i].ID]

FinalizarCompra(cart) ==
    LET now == Strftime(clock)
        r == ComprarItens(InputsIds(df_produtos), df_produtos, cart, now)
    IN /\ pc.fase = "carregado"
       /\ df_produtos # Vazio
       /\ DOMAIN cart = IDs(df_produtos)
       /\ IF r.compras # <<>>
          THEN Fim("finalizar", "", r.prod, df_historico \o r.compras, TRUE)
          ELSE Fim("finalizar", "Selecione algum produto.", r.prod, df_historico, FALSE)

\* ---- "SALVAR CONTAGEM" (tab Estoque Casa)
\* Variant of the loop: the event is logged and the stock is not overwritten.
RECURSIVE AplicarContagemSemGravar(_, _, _, _)
AplicarContagemSemGravar(ids, df_prod, contagem, now) ==
    IF ids = <<>> THEN [prod |-> df_prod, logs |-> <<>>]
    ELSE LET pid == Head(ids)
             novo_valor == contagem[pid]
             linha == CHOOSE i \in 1..Len(df_prod) :
                         /\ df_prod[i].ID = pid
                         /\ \A j \in 1..(i - 1) : df_prod[j].ID # pid
             valor_antigo == df_prod[linha].Estoque_Atual
         IN IF novo_valor # valor_antigo
            THEN LET rest == AplicarContagemSemGravar(Tail(ids), df_prod, contagem, now)
                 IN [prod |-> rest.prod,
                     logs |-> <<[Data |-> now, Produto_ID |-> pid, Tipo |-> "LEVANTAMENTO",
                                 Qtd |-> novo_valor, Preco_Na_Epoca |-> 0]>> \o rest.logs]
            ELSE AplicarContagemSemGravar(Tail(ids), df_prod, contagem, now)

\* The loop over inputs_estoque.items(): the frame of products and logs_audit after it.
RECURSIVE AplicarContagem(_, _, _, _)
AplicarContagem(ids, df_prod, contagem, now) ==
    IF ids = <<>> THEN [prod |-> df_prod, logs |-> <<>>]
    ELSE LET pid == Head(ids)
             novo_valor == contagem[pid]
             linha == CHOOSE i \in 1..Len(df_prod) :
                         /\ df_prod[i].ID = pid
                         /\ \A j \in 1..(i - 1) : df_prod[j].ID # pid
             valor_antigo == IntOf(FromInt(df_prod[linha].Estoque_Atual))
         IN IF novo_valor # valor_antigo
            THEN LET df1 == [i \in 1..Len(df_prod) |->
                               IF df_prod[i].ID = pid
                               THEN [df_prod[i] EXCEPT !.Estoque_Atual = novo_valor]
                               ELSE df_prod[i]]
                     rest == AplicarContagem(Tail(ids), df1, contagem, now)
                 IN [prod |-> rest.prod,
                     logs |-> <<[Data |-> now, Produto_ID |-> pid, Tipo |-> "LEVANTAMENTO",
                                 Qtd |-> novo_valor, Preco_Na_Epoca |-> 0]>> \o rest.logs]
            ELSE AplicarContagem(Tail(ids), df_prod, contagem, now)

SalvarContagem(contagem) ==
    LET now == Strftime(clock)
        r == AplicarContagem(InputsIds(df_produtos), df_produtos, contagem, now)
    IN /\ pc.fase = "carregado"
       /\ df_produtos # Vazio
       /\ DOMAIN contagem = IDs(df_produtos)
       /\ IF r.logs # <<>>
          THEN Fim("contagem", "", r.prod, df_historico \o r.logs, TRUE)
          ELSE Fim("contagem", "Nenhuma alteracao.", r.prod, df_historico, FALSE)

\* ---- "Confirmar Exclusao" (tab Gerenciar)
Excluir(p_del) ==
    /\ pc.fase = "carregado"
    /\ df_produtos # Vazio
    /\ p_del \in {df_produtos[i].Produto : i \in 1..Len(df_produtos)}
    /\ Fim("excluir", "", SelectSeq(df_produtos, LAMBDA r : r.Produto # p_del),
           df_historico, TRUE)

\* ------------------------------------------------------------------ specifications
Cargas == {"ok", "erro"}

\* The button of the run.
Botao ==
    \/ \E nome \in Nomes, e \in Qtds, m \in Minimos : Cadastrar(nome, e, m)
    \/ \E cart \in [IDs(df_produtos) -> [qtd : Qtds, prc : Precos]] : FinalizarCompra(cart)
    \/ \E n \in [IDs(df_produtos) -> Qtds] : SalvarContagem(n)
    \/ \E p \in Nomes : Excluir(Strip(p))

\* What follows the loading in a stretch of use: the button and the steps of a save.
Passo == Botao \/ Gravar \/ Dormir

\* Every load and every worksheet request succeeds; the app may be left alone for
\* a month between two interactions.
Next == Abrir({"ok"}) \/ Passo \/ Esperar

Spec == Init /\ [][Next]_vars

\* One stretch of use in which load_data may fail (a worksheet call raises, or
\* there is no sheet at all).
InitCarga ==
    /\ sh \in BOOLEAN
    /\ ws_prod = Vazio
    /\ ws_hist = Vazio
    /\ df_produtos = Vazio
    /\ df_historico = Vazio
    /\ lista = <<>>
    /\ clock = 0
    /\ falhas = 0
    /\ ult = [op |-> "", msg |-> "", salvou |-> FALSE, exc |-> "", n0 |-> 0]
    /\ pc = Pronto

NextCarga == Abrir(Cargas) \/ Passo

SpecCarga == InitCarga /\ [][NextCarga]_vars

\* One stretch of use in which a worksheet request of save_data may raise.
NextGravacao == Abrir({"ok"}) \/ Passo \/ GravarErro

SpecGravacao == Init /\ [][NextGravacao]_vars

\* ---- the planner on drawn frames
\* One product row, and histories of at most MaxEventos rows in clock order: counts
\* and purchases of that product and of another one, a row at the same second as
\* the row before it, one second later, or thirty days and a half later. No two
\* counts of one product share a second (the handlers write one row per product and
\* second).
LinhasPlanner ==
    { [ID |-> 1, Produto |-> <<"a">>, Preco |-> 0, Estoque_Atual |-> l[1], Estoque_Minimo |-> l[2]] :
        l \in { <<0, 1>>, <<1, 2>>, <<2, 1>> } }

EventosPlanner ==
    { [Produto_ID |-> 1, Tipo |-> "LEVANTAMENTO", Qtd |-> 0, Preco_Na_Epoca |-> 0],
      [Produto_ID |-> 1, Tipo |-> "LEVANTAMENTO", Qtd |-> 1, Preco_Na_Epoca |-> 0],
      [Produto_ID |-> 1, Tipo |-> "LEVANTAMENTO", Qtd |-> 2, Preco_Na_Epoca |-> 0],
      [Produto_ID |-> 1, Tipo |-> "COMPRA", Qtd |-> 1, Preco_Na_Epoca |-> 550],
      [Produto_ID |-> 2, Tipo |-> "LEVANTAMENTO", Qtd |-> 1, Preco_Na_Epoca |-> 0],
      [Produto_ID |-> 2, Tipo |-> "COMPRA", Qtd |-> 1, Preco_Na_Epoca |-> 550] }

Esperas == {0, 1, EsperaLonga}

ComData(e, t) ==
    [Data |-> Strftime(t), Produto_ID |-> e.Produto_ID, Tipo |-> e.Tipo,
     Qtd |-> e.Qtd, Preco_Na_Epoca |-> e.Preco_Na_Epoca]

SemEmpate(h, e) ==
    \A i \in 1..Len(h) :
        ~(/\ e.Tipo = "LEVANTAMENTO" /\ h[i].Tipo = "LEVANTAMENTO"
          /\ h[i].Produto_ID = e.Produto_ID /\ h[i].Data = e.Data)

RECURSIVE HistoricosPlanner(_)
HistoricosPlanner(n) ==
    IF n = 1 THEN { <<ComData(e, 0)>> : e \in EventosPlanner }
    ELSE LET H == HistoricosPlanner(n - 1)
         IN H \cup { Append(x[1], ComData(x[2], Strptime(x[1][n - 1].Data) + x[3])) :
                       x \in { y \in H \X EventosPlanner \X Esperas :
                                 /\ Len(y[1]) = n - 1
                                 /\ SemEmpate(y[1], ComData(y[2], Strptime(y[1][n - 1].Data) + y[3])) } }

\* Larger quantities and longer gaps: a product with the given stock, counted q1
\* and, dias days later, q2, with compra units bought one day after the first count.
Cenario(estoque, q1, compra, q2, dias) ==
    [prod |-> <<[ID |-> 1, Produto |-> <<"a">>, Preco |-> 0,
                 Estoque_Atual |-> estoque, Estoque_Minimo |-> 1]>>,
     hist |-> <<[Data |-> Strftime(0), Produto_ID |-> 1, Tipo |-> "LEVANTAMENTO",
                 Qtd |-> q1, Preco_Na_Epoca |-> 0]>>
              \o (IF compra = 0 THEN <<>>
                  ELSE <<[Data |-> Strftime(SecsPerDay), Produto_ID |-> 1, Tipo |-> "COMPRA",
                          Qtd |-> compra, Preco_Na_Epoca |-> 550]>>)
              \o <<[Data |-> Strftime(dias * SecsPerDay), Produto_ID |-> 1,
                    Tipo |-> "LEVANTAMENTO", Qtd |-> q2, Preco_Na_Epoca |-> 0]>>]

\* 10 -> 4 in ten days with 6 bought (36.0 a month); rates whose double is not the
\* exact quotient: 31/30*30 against a stock of 31, 41/300*30 against a stock of 4,
\* 37/100*30 against a stock of 11, and 0.15, 1.05 and 0.05 a month.
CenarioBase == Cenario(5, 10, 6, 4, 10)

CenariosPlanner ==
    { CenarioBase, Cenario(31, 31, 0, 0, 30), Cenario(4, 41, 0, 0, 300),
      Cenario(11, 37, 0, 0, 100), Cenario(0, 1, 0, 0, 200), Cenario(0, 7, 0, 0, 200),
      Cenario(0, 1, 0, 0, 600) }

InitPlanner ==
    /\ sh = TRUE
    /\ \/ /\ ws_prod \in { <<l>> : l \in LinhasPlanner }
          /\ ws_hist \in HistoricosPlanner(MaxEventos)
       \/ \E c \in CenariosPlanner : ws_prod = c.prod /\ ws_hist = c.hist
    /\ df_produtos = Vazio
    /\ df_historico = Vazio
    /\ lista = <<>>
    /\ clock = 0
    /\ falhas = 0
    /\ ult = [op |-> "", msg |-> "", salvou |-> FALSE, exc |-> "", n0 |-> 0]
    /\ pc = Pronto

NextPlanner == Abrir({"ok"})

SpecPlanner == InitPlanner /\ [][NextPlanner]_vars

\* ------------------------------------------------------------------ claims
Linha(df, id) == CHOOSE r \in Range(df) : r.ID = id
Novos(antes, depois) == SubSeq(depois, Len(antes) + 1, Len(depois))
EhPrefixo(a, b) == Len(a) <= Len(b) /\ SubSeq(b, 1, Len(a)) = a
DoProduto(hist, id) == {j \in 1..Len(hist) : hist[j].Produto_ID = id}

RECURSIVE SomaQtd(_, _)
SomaQtd(hist, J) ==
    IF J = {} THEN 0
    ELSE LET j == CHOOSE x \in J : TRUE IN hist[j].Qtd + SomaQtd(hist, J \ {j})

\* For every row of prod: its stock is the quantity of the last LEVANTAMENTO row of
\* its ID in hist plus the quantities of the COMPRA rows of that ID after it.
EstoqueDerivado(prod, hist) ==
    \A i \in 1..Len(prod) :
        LET id == prod[i].ID
            A == {j \in DoProduto(hist, id) : hist[j].Tipo = "LEVANTAMENTO"}
        IN /\ A # {}
           /\ LET a == MaxOf(A)
                  C == {j \in DoProduto(hist, id) : hist[j].Tipo = "COMPRA" /\ j > a}
              IN prod[i].Estoque_Atual = hist[a].Qtd + SomaQtd(hist, C)

\* C1: after any sequence of registrations, stock counts, purchases (and deletions),
\* the stock of every active product equals the quantity of its most recently
\* appended LEVANTAMENTO event plus the quantities of its COMPRA events appended
\* after that one: in the frames of the script always, and in the worksheets
\* whenever no save_data is under way.
C1_EstoqueConsistente ==
    /\ EstoqueDerivado(df_produtos, df_historico)
    /\ pc.fase # "gravando" => EstoqueDerivado(ws_prod, ws_hist)

\* a product registered, counted with another result and bought after the count
C1_Witness ==
    /\ pc.fase # "gravando"
    /\ \E i \in 1..Len(ws_prod) :
        \E a, b, c \in DoProduto(ws_hist, ws_prod[i].ID) :
            /\ a < b /\ b < c
            /\ ws_hist[a].Tipo = "LEVANTAMENTO"
            /\ ws_hist[b].Tipo = "LEVANTAMENTO"
            /\ ws_hist[c].Tipo = "COMPRA"
            /\ ws_hist[a].Qtd # ws_hist[b].Qtd
            /\ ws_prod[i].Estoque_Atual = ws_hist[b].Qtd + ws_hist[c].Qtd
            /\ ws_prod[i].Estoque_Atual # ws_hist[a].Qtd + ws_hist[c].Qtd

CartsDe(prod) == [IDs(prod) -> [qtd : Qtds, prc : Precos]]
Positivos(cart) == {pid \in DOMAIN cart : cart[pid].qtd > 0}

\* What a commit of cart must have done to the products (antes -> depois) and to
\* the history (hantes -> hdepois) when the handler ran at second t.
CompraFeita(cart, antes, depois, hantes, hdepois, t) ==
    LET novos == Novos(hantes, hdepois)
    IN /\ IDs(depois) = IDs(antes)
       /\ Len(depois) = Len(antes)
       /\ \A pid \in IDs(antes) :
             IF pid \in Positivos(cart)
             THEN /\ Linha(depois, pid).Estoque_Atual = Linha(antes, pid).Estoque_Atual + cart[pid].qtd
                  /\ Linha(depois, pid).Preco = cart[pid].prc
                  /\ Linha(depois, pid).Produto = Linha(antes, pid).Produto
                  /\ Linha(depois, pid).Estoque_Minimo = Linha(antes, pid).Estoque_Minimo
                  /\ Cardinality(DoProduto(novos, pid)) = 1
                  /\ \A j \in DoProduto(novos, pid) :
                        /\ novos[j].Tipo = "COMPRA"
                        /\ novos[j].Qtd = cart[pid].qtd
                        /\ novos[j].Preco_Na_Epoca = cart[pid].prc
             ELSE /\ Linha(depois, pid) = Linha(antes, pid)
                  /\ DoProduto(novos, pid) = {}
       /\ EhPrefixo(hantes, hdepois)
       /\ Len(novos) = Cardinality(Positivos(cart))
       /\ \A j \in 1..Len(novos) : novos[j].Data = Strftime(t)

\* save_data of the handler op has just returned: the worksheets hold the frames
\* the handler built and the success message msg is shown.
Gravado(op, msg) ==
    (ult.op = op /\ pc.fase = "gravando" /\ pc'.fase = "salvo")
    => /\ ws_prod' = df_produtos
       /\ ws_hist' = df_historico
       /\ df_produtos' = df_produtos
       /\ df_historico' = df_historico
       /\ ult'.msg = msg

\* C2: a commit with at least one positive cart quantity adds, for every entry with
\* quantity > 0 and for no other product, the quantity to the stock, sets the price
\* to the entry's price and appends exactly one COMPRA event with that product,
\* quantity and price; all the events of one commit carry the one timestamp taken
\* when the handler started; these frames are what save_data then stores.
C2_Commit ==
    [][/\ \A cart \in CartsDe(ws_prod) :
             (FinalizarCompra(cart) /\ Positivos(cart) # {})
             => /\ CompraFeita(cart, ws_prod, df_produtos', ws_hist, df_historico', clock)
                /\ ult'.salvou
                /\ pc'.fase = "gravando"
       /\ Gravado("finalizar", "Compra registrada!")]_vars

\* a commit of two products in one run (two COMPRA rows of one second), a third
\* product left alone or not
C2_Witness ==
    /\ ult.op = "finalizar" /\ ult.msg = "Compra registrada!"
    /\ Len(ws_hist) >= 2
    /\ ws_hist[Len(ws_hist)].Tipo = "COMPRA"
    /\ ws_hist[Len(ws_hist) - 1].Tipo = "COMPRA"
    /\ ws_hist[Len(ws_hist)].Data = ws_hist[Len(ws_hist) - 1].Data
    /\ ws_hist[Len(ws_hist)].Produto_ID # ws_hist[Len(ws_hist) - 1].Produto_ID

\* C3: a commit in which no cart entry has a positive quantity changes neither the
\* worksheets nor the frames, calls save_data not at all, appends no event and
\* shows "Selecione algum produto." instead of the success message.
C3_CommitVazio ==
    [][\A cart \in CartsDe(ws_prod) :
          (FinalizarCompra(cart) /\ Positivos(cart) = {})
          => /\ ws_prod' = ws_prod
             /\ ws_hist' = ws_hist
             /\ Range(df_produtos') = Range(ws_prod) /\ Len(df_produtos') = Len(ws_prod)
             /\ df_historico' = ws_hist
             /\ ~ult'.salvou
             /\ pc'.fase = "pronto"
             /\ ult'.msg = "Selecione algum produto."
             /\ ult'.msg # "Compra registrada!"
             /\ clock' = clock]_vars

\* an all-zero commit of a non-empty list of products has just run
C3_Witness ==
    /\ ult.op = "finalizar" /\ ult.msg = "Selecione algum produto."
    /\ ~ult.salvou
    /\ Len(ws_prod) >= 1
    /\ df_historico = ws_hist

\* What a stock count n must have done.
ContagemFeita(n, antes, depois, hantes, hdepois) ==
    LET novos == Novos(hantes, hdepois)
    IN /\ IDs(depois) = IDs(antes)
       /\ Len(depois) = Len(antes)
       /\ EhPrefixo(hantes, hdepois)
       /\ \A pid \in IDs(antes) :
             IF n[pid] = Linha(antes, pid).Estoque_Atual
             THEN /\ Linha(depois, pid) = Linha(antes, pid)
                  /\ DoProduto(novos, pid) = {}
             ELSE /\ Linha(depois, pid) = [Linha(antes, pid) EXCEPT !.Estoque_Atual = n[pid]]
                  /\ Cardinality(DoProduto(novos, pid)) = 1
                  /\ \A j \in DoProduto(novos, pid) :
                        novos[j].Tipo = "LEVANTAMENTO" /\ novos[j].Qtd = n[pid]
       /\ \A j \in 1..Len(novos) : novos[j].Produto_ID \in IDs(antes)

\* C4: a stock count gives a product whose counted value equals its stock no event,
\* and a product whose counted value differs the counted value as stock and exactly
\* one LEVANTAMENTO event with it; the same count applied again to the result
\* appends nothing, changes no product and reports "Nenhuma alteracao."; the frames
\* of a count with changes are what save_data then stores.
C4_Contagem ==
    [][/\ \A n \in [IDs(ws_prod) -> Qtds] :
             SalvarContagem(n)
             => /\ ContagemFeita(n, ws_prod, df_produtos', ws_hist, df_historico')
                /\ (ult'.msg = "Nenhuma alteracao.") <=> (df_historico' = ws_hist)
                /\ ult'.salvou <=> (df_historico' # ws_hist)
                /\ (pc'.fase = "gravando") <=> (df_historico' # ws_hist)
                /\ LET again == AplicarContagem(InputsIds(df_produtos'), df_produtos', n,
                                                Strftime(clock + Sleep("contagem")))
                   IN again.logs = <<>> /\ again.prod = df_produtos'
                /\ ContagemFeita(n, df_produtos', df_produtos', df_historico', df_historico')
       /\ Gravado("contagem", "Estoque atualizado!")]_vars

\* the count that was saved before is submitted again: nothing changes
C4_Witness ==
    /\ ult.op = "contagem" /\ ult.msg = "Nenhuma alteracao."
    /\ \E i \in 1..Len(ws_prod) :
          \E a, b \in DoProduto(ws_hist, ws_prod[i].ID) :
             /\ a < b
             /\ b = Len(ws_hist)
             /\ ws_hist[a].Tipo = "LEVANTAMENTO"
             /\ ws_hist[b].Tipo = "LEVANTAMENTO"
             /\ ws_hist[b].Qtd = ws_prod[i].Estoque_Atual

\* C7: right after a successful registration the history holds exactly one event
\* with the new product's ID, a LEVANTAMENTO of the initial stock, and no other
\* event with that ID. (The new product is the row the handler appended.)
C7_PrimeiroLevantamento ==
    (ult.op = "cadastrar" /\ ult.msg = "cadastrado com sucesso!")
    => LET novo == ws_prod[Len(ws_prod)]
           J == DoProduto(ws_hist, novo.ID)
       IN /\ Cardinality(J) = 1
          /\ \A j \in J : /\ ws_hist[j].Tipo = "LEVANTAMENTO"
                          /\ ws_hist[j].Qtd = novo.Estoque_Atual

NomesAtivosOk(prod) ==
    /\ \A i \in 1..Len(prod) : prod[i].Produto # <<>>
    /\ \A i, j \in 1..Len(prod) :
          i # j => Lower(Strip(prod[i].Produto)) # Lower(Strip(prod[j].Produto))

\* C8: a registration is rejected, with products, history and worksheets unchanged
\* and no save, when the name is empty or its trimmed lower-case form is that of an
\* active product; so the names of the active products are always non-empty and
\* pairwise distinct ignoring case.
C8_NomesValidos ==
    [][/\ \A nome \in Nomes, e \in Qtds, m \in Minimos :
            ( /\ Cadastrar(nome, e, m)
              /\ \/ nome = <<>>
                 \/ \E i \in 1..Len(ws_prod) :
                       Lower(Strip(nome)) = Lower(Strip(ws_prod[i].Produto)) )
            => /\ ws_prod' = ws_prod
               /\ ws_hist' = ws_hist
               /\ Range(df_produtos') = Range(ws_prod)
               /\ df_historico' = ws_hist
               /\ ~ult'.salvou
               /\ pc'.fase = "pronto"
               /\ ult'.msg # "cadastrado com sucesso!"
       /\ NomesAtivosOk(ws_prod')]_vars

\* C9: every save writes a history of which the stored history is an unchanged
\* prefix, and products that include every stored product except one deleted by
\* that interaction, also when the interaction's load failed. (What a save writes
\* is the pair of frames its handler hands to save_data.)
C9_SoAcrescenta ==
    [][(pc.fase # "gravando" /\ pc'.fase = "gravando")
       => /\ EhPrefixo(ws_hist, df_historico')
          /\ \/ IDs(ws_prod) \subseteq IDs(df_produtos')
             \/ /\ ult'.op = "excluir"
                /\ Cardinality(IDs(ws_prod) \ IDs(df_produtos')) = 1]_vars

\* C10: once the save_data of a commit is over, returned or raised, a COMPRA event
\* of the commit is in the worksheet "historico" exactly when the stock and price
\* the commit gave that product are in the worksheet "produtos".
C10_CommitAtomico ==
    (ult.op = "finalizar" /\ ult.salvou /\ pc.fase # "gravando")
    => \A pid \in IDs(df_produtos) :
          LET comprado == \E j \in (ult.n0 + 1)..Len(df_historico) :
                             df_historico[j].Produto_ID = pid
              evento == \E j \in (ult.n0 + 1)..Len(ws_hist) :
                           /\ ws_hist[j].Produto_ID = pid
                           /\ ws_hist[j].Tipo = "COMPRA"
              estoque == /\ pid \in IDs(ws_prod)
                         /\ Linha(ws_prod, pid) = Linha(df_produtos, pid)
          IN comprado => (evento <=> estoque)

\* ---- the planner
LevsDe(hist, id) == {j \in DoProduto(hist, id) : hist[j].Tipo = "LEVANTAMENTO"}
Instante(hist, j) == hist[j].Data[1] * SecsPerDay + hist[j].Data[2]
MaisRecente(hist, J) == CHOOSE j \in J : \A k \in J : Instante(hist, k) <= Instante(hist, j)

\* The estimate the claims describe, for a product with two counts: consumed units
\* and whole days between the two latest counts, and the rate they give.
Estimativa(hist, id) ==
    LET A == LevsDe(hist, id)
        latest == MaisRecente(hist, A)
        previous == MaisRecente(hist, A \ {latest})
        C == {j \in DoProduto(hist, id) :
                /\ hist[j].Tipo = "COMPRA"
                /\ Instante(hist, previous) < Instante(hist, j)
                /\ Instante(hist, j) <= Instante(hist, latest)}
        consumed == hist[previous].Qtd + SomaQtd(hist, C) - hist[latest].Qtd
        days == (Instante(hist, latest) - Instante(hist, previous)) \div SecsPerDay
    IN [consumed |-> IF consumed < 0 THEN 0 ELSE consumed,
        days |-> IF days = 0 THEN 1 ELSE days]

Taxa(hist, id) ==
    LET e == Estimativa(hist, id) IN FloatMul(TrueDiv(e.consumed, e.days), 30)

\* C5: the planner uses the minimum-stock rule both without a rate (fewer than two
\* counts) and with a rate that does not exceed the stock: then the suggestion is
\* trunc(min - stock + 0.9) with "Abaixo do minimo" when min > stock, and 0 with an
\* empty reason otherwise.
C5_RegraDoMinimo ==
    ult.op = "abrir"
    => \A i \in 1..Len(lista) :
          LET row == df_produtos[i]
              semTaxa == Cardinality(LevsDe(df_historico, row.ID)) < 2
          IN (semTaxa \/ ~FloatLess(FromInt(row.Estoque_Atual), Taxa(df_historico, row.ID)))
             => IF row.Estoque_Minimo > row.Estoque_Atual
                THEN /\ lista[i].sugestao = (10 * (row.Estoque_Minimo - row.Estoque_Atual) + 9) \div 10
                     /\ lista[i].motivo = <<"Abaixo do minimo">>
                ELSE /\ lista[i].sugestao = 0
                     /\ lista[i].motivo = <<"">>

\* C6: with two or more counts of the product, the estimate takes the two counts
\* of greatest timestamp (latest, previous), sums the COMPRA quantities of the
\* product with previous < t <= latest, clamps previous + bought - latest at 0 and
\* divides by the whole days elapsed (0 taken as 1) times 30; the rate is never
\* negative, and it is the rate the rendered reason shows when it exceeds the stock.
C6_Estimador ==
    ult.op = "abrir"
    => \A i \in 1..Len(lista) :
          LET row == df_produtos[i]
              e == Estimativa(df_historico, row.ID)
              taxa == Taxa(df_historico, row.ID)
              cm == ConsumoMensal(row.ID, df_historico)
          IN Cardinality(LevsDe(df_historico, row.ID)) >= 2
             => /\ e.consumed >= 0 /\ e.days >= 1
                /\ cm = taxa
                /\ ~FloatLess(cm, FromInt(0))
                /\ (lista[i].motivo[1] = "Media consumo: ")
                      <=> FloatLess(FromInt(row.Estoque_Atual), taxa)
                /\ lista[i].motivo[1] = "Media consumo: "
                      => lista[i].motivo[2] = Fmt1(taxa)

\* counts of 10 and of 4 ten days apart with 6 bought in between: 36.0 a month
C6_Witness ==
    /\ ult.op = "abrir"
    /\ df_historico = CenarioBase.hist
    /\ ConsumoMensal(1, df_historico) = FromInt(36)
    /\ lista = <<[ID |-> 1, sugestao |-> 31, motivo |-> <<"Media consumo: ", 360>>]>>

====
